---- MODULE Spec2Model ----
(***************************************************************************)
(* A model of github.com/lectio/properties: the property factory           *)
(* (factory.go), the mutable property collection Default (properties.go)   *)
(* and the front-matter scanner fromYAMLFrontMatter (factory.go).          *)
(***************************************************************************)
EXTENDS Integers, Sequences, FiniteSets, TLC

(***************************************************************************)
(* Bounds of the model.                                                    *)
(***************************************************************************)
\* the size counter is not driven past this value by the sequential callers
MaxSize == 3
\* number of concurrent callers sharing one collection
NumProcs == 3
\* most lines of a buffer handed to the front-matter scanner
MaxLines == 3

(***************************************************************************)
(* Values: a Go interface{} value is modelled as its dynamic type t and    *)
(* its payload (s: string, n: integer or instant, b: bool, l: []string).   *)
(* A Go string (a property name too) is the sequence of its characters.    *)
(***************************************************************************)
Val(t, s, n, b, l) == [t |-> t, s |-> s, n |-> n, b |-> b, l |-> l]
StrV(s) == Val("string", s, 0, FALSE, <<>>)
ListV(l) == Val("[]string", <<>>, 0, FALSE, l)
TimeV(n) == Val("time.Time", <<>>, n, FALSE, <<>>)
BoolV(b) == Val("bool", <<>>, 0, b, <<>>)
IntV(t, n) == Val(t, <<>>, n, FALSE, <<>>)
OtherV(s) == Val("struct", s, 0, FALSE, <<>>)
NilV == Val("nil", <<>>, 0, FALSE, <<>>)

\* property names used by the callers of the model
Names == {<<"a">>, <<"b">>}

\* values handed to Add / AddChecked / AddMap
AnyValues == {StrV(<<"x">>), IntV("int", 7), OtherV(<<"o">>)}

\* texts handed to AddParsed / AddParsedChecked / AddTextMap
Texts == {<<"7">>, <<"x">>}

(***************************************************************************)
(* Errors.  An error value carries its kind and the data its message       *)
(* prints.                                                                 *)
(***************************************************************************)
Err(kind, name, type, inside, start, end) ==
    [kind |-> kind, name |-> name, type |-> type,
     inside |-> inside, start |-> start, end |-> end]
NoError == Err("nil", <<>>, "", FALSE, 0, 0)
PlainError(kind) == Err(kind, <<>>, "", FALSE, 0, 0)

(***************************************************************************)
(* Properties (property.go).  kind is the implementing struct.             *)
(***************************************************************************)
Prop(kind, name, val) == [kind |-> kind, name |-> name, val |-> val]
NilProp == Prop("nil", <<>>, NilV)
DefaultTextProperty(name, value) == Prop("Text", name, value)
DefaultTextListProperty(name, value) == Prop("TextList", name, value)
DefaultDateTimeProperty(name, value) == Prop("DateTime", name, value)
DefaultFlagProperty(name, value) == Prop("Flag", name, value)
DefaultCardinalProperty(name, value) == Prop("Cardinal", name, IntV("int64", value.n))

\* Property.Name
Name(p) == p.name
\* Property.AnyValue
AnyValue(p) == p.val

\* a result triple (Property, bool, error)
Res(prop, ok, err) == [prop |-> prop, ok |-> ok, err |-> err]

(***************************************************************************)
(* Caller-supplied extension points.  Each is nil or one behaviour of a    *)
(* small set; a behaviour is a total function of its arguments.            *)
(***************************************************************************)
HookBehaviours == {"nil", "pass", "veto", "error", "picky", "sloppy"}
CreatorBehaviours == {"nil", "accept", "decline", "error"}

\* AfterCreateHookFunc / AfterCreateHook.AfterCreate
RunAfterCreate(b, property) ==
    CASE b = "pass" -> Res(property, TRUE, NoError)
      [] b = "veto" -> Res(property, FALSE, NoError)
      \* a hook that fails on the Cardinal properties and passes the others
      [] b = "picky" /\ property.kind # "Cardinal" -> Res(property, TRUE, NoError)
      \* a hook that reports an error and still hands the property back
      [] b = "sloppy" -> Res(property, TRUE, PlainError("HookError"))
      [] OTHER -> Res(NilProp, FALSE, PlainError("HookError"))

\* CustomCreatorFunc / CustomCreatorHandler.FromAny
RunCustomCreator(b, name, value) ==
    CASE b = "accept" -> Res(Prop("Custom", name, value), TRUE, NoError)
      [] b = "decline" -> Res(NilProp, FALSE, NoError)
      \* the call of a nil func panics
      [] b = "nil" -> Res(NilProp, FALSE, PlainError("panic"))
      [] OTHER -> Res(NilProp, FALSE, PlainError("CreatorError"))

\* one element of a variadic options list
Option(type, b) == [type |-> type, b |-> b]

\* DefaultPropertyFactory
PropertyFactory(ccf, cc, achf, ac) ==
    [CustomCreatorFunc |-> ccf, CustomCreator |-> cc,
     AfterCreateHookFunc |-> achf, AfterCreate |-> ac]
ThePropertyFactory == PropertyFactory("nil", "nil", "nil", "nil")

(***************************************************************************)
(* The property factory (factory.go).                                      *)
(***************************************************************************)
afterSuccessfulCreate(f, property, options) ==
    IF f.AfterCreate # "nil" THEN RunAfterCreate(f.AfterCreate, property)
    ELSE IF f.AfterCreateHookFunc # "nil"
         THEN RunAfterCreate(f.AfterCreateHookFunc, property)
    ELSE Res(property, TRUE, NoError)

\* a nil CustomCreatorFunc among the options still has that type; a nil
\* CustomCreatorHandler is a nil interface, which no type assertion matches
IsCreatorOption(o) ==
    \/ o.type = "CustomCreatorFunc"
    \/ o.type = "CustomCreatorHandler" /\ o.b # "nil"

handleUnknownType(f, name, value, options) ==
    LET hits == {i \in 1..Len(options) : IsCreatorOption(options[i])}
    IN  IF hits # {}
        THEN LET first == CHOOSE i \in hits : \A j \in hits : i <= j
             IN  RunCustomCreator(options[first].b, name, value)
        ELSE IF f.CustomCreator # "nil"
             THEN RunCustomCreator(f.CustomCreator, name, value)
        ELSE IF f.CustomCreatorFunc # "nil"
             THEN RunCustomCreator(f.CustomCreatorFunc, name, value)
        ELSE Res(NilProp, FALSE, Err("UnsupportedType", name, value.t, FALSE, 0, 0))

FromAny(f, name, v, options) ==
    CASE v.t = "string" -> afterSuccessfulCreate(f, DefaultTextProperty(name, v), options)
      [] v.t = "[]string" -> afterSuccessfulCreate(f, DefaultTextListProperty(name, v), options)
      [] v.t = "time.Time" -> afterSuccessfulCreate(f, DefaultDateTimeProperty(name, v), options)
      [] v.t = "bool" -> afterSuccessfulCreate(f, DefaultFlagProperty(name, v), options)
      [] v.t = "int" -> afterSuccessfulCreate(f, DefaultCardinalProperty(name, v), options)
      [] v.t = "int64" -> afterSuccessfulCreate(f, DefaultCardinalProperty(name, v), options)
      [] OTHER -> handleUnknownType(f, name, v, options)

\* strconv.ParseBool: the literals it accepts, and the value of each
BoolTrueTexts == {<<"1">>, <<"t">>, <<"T">>, <<"T", "R", "U", "E">>,
                  <<"t", "r", "u", "e">>, <<"T", "r", "u", "e">>}
BoolFalseTexts == {<<"0">>, <<"f">>, <<"F">>, <<"F", "A", "L", "S", "E">>,
                   <<"f", "a", "l", "s", "e">>, <<"F", "a", "l", "s", "e">>}
ParseBoolOk(value) == value \in BoolTrueTexts \cup BoolFalseTexts
ParseBool(value) == value \in BoolTrueTexts

Digits == <<"0", "1", "2", "3", "4", "5", "6", "7", "8", "9">>
IsDigit(c) == \E d \in 1..10 : Digits[d] = c
DigitValue(c) == (CHOOSE d \in 1..10 : Digits[d] = c) - 1
AllDigits(t) == \A i \in 1..Len(t) : IsDigit(t[i])

RECURSIVE DecimalValue(_)
DecimalValue(t) ==
    IF t = <<>> THEN 0
    ELSE 10 * DecimalValue(SubSeq(t, 1, Len(t) - 1)) + DigitValue(t[Len(t)])

\* strconv.ParseInt(value, 10, 64): an optional sign, then one or more digits
Unsigned(value) ==
    IF value # <<>> /\ value[1] \in {"+", "-"} THEN Tail(value) ELSE value
ParseIntOk(value) == Unsigned(value) # <<>> /\ AllDigits(Unsigned(value))
ParseInt(value) ==
    IF value[1] = "-" THEN 0 - DecimalValue(Unsigned(value))
    ELSE DecimalValue(Unsigned(value))

\* dateparse.ParseAny: of the texts of the model, the layouts yyyy and
\* yyyy-mm; the instant is kept as the number yyyymm
DateParseAnyOk(value) ==
    \/ Len(value) = 4 /\ AllDigits(value)
    \/ /\ Len(value) = 7 /\ value[5] = "-"
       /\ AllDigits(SubSeq(value, 1, 4)) /\ AllDigits(SubSeq(value, 6, 7))
       /\ DecimalValue(SubSeq(value, 6, 7)) \in 1..12
DateParseAny(value) ==
    IF Len(value) = 4 THEN 100 * DecimalValue(value) + 1
    ELSE 100 * DecimalValue(SubSeq(value, 1, 4)) + DecimalValue(SubSeq(value, 6, 7))

\* FromText with the integer attempt made first
FromTextIntegerFirst(f, name, value, options) ==
    IF ParseIntOk(value)
    THEN FromAny(f, name, IntV("int64", ParseInt(value)), options)
    ELSE IF ParseBoolOk(value) THEN FromAny(f, name, BoolV(ParseBool(value)), options)
    ELSE IF DateParseAnyOk(value)
         THEN FromAny(f, name, TimeV(DateParseAny(value)), options)
    ELSE FromAny(f, name, StrV(value), options)

FromText(f, name, value, options) ==
    IF ParseBoolOk(value) THEN FromAny(f, name, BoolV(ParseBool(value)), options)
    ELSE IF DateParseAnyOk(value)
         THEN FromAny(f, name, TimeV(DateParseAny(value)), options)
    ELSE IF ParseIntOk(value)
         THEN FromAny(f, name, IntV("int64", ParseInt(value)), options)
    ELSE FromAny(f, name, StrV(value), options)

(***************************************************************************)
(* The collection Default (properties.go).                                 *)
(***************************************************************************)
\* syncMapSize is a Go uint (64 bits); the model keeps the wrap at zero with
\* a width TLC's integers can hold
UintBits == 16
UintMod == 2 ^ UintBits

PolicyBehaviours == {"nil", "allow", "veto", "substitute", "error"}
AllowBehaviours == {"nil", "default", "reject", "error"}

\* the property a substituting add-policy stores instead of the given one
Substitute == DefaultTextProperty(<<"b">>, StrV(<<"s">>))

\* AddPropertyPolicy.AllowAdd
RunAllowAdd(b, givenProp) ==
    CASE b = "allow" -> Res(givenProp, TRUE, NoError)
      [] b = "veto" -> Res(givenProp, FALSE, NoError)
      [] b = "substitute" -> Res(Substitute, TRUE, NoError)
      [] OTHER -> Res(NilProp, FALSE, PlainError("PolicyError"))

\* AllowAddFunc / AllowAddTextFunc; "default" is DefaultAllowAdd
RunAllow(b, givenName, givenValue, createdProp) ==
    CASE b = "default" -> Res(createdProp, TRUE, NoError)
      [] b = "reject" -> Res(createdProp, FALSE, NoError)
      [] OTHER -> Res(NilProp, FALSE, PlainError("AllowError"))

\* the struct Default
Default(f, m, size, policy, event) ==
    [pf |-> f, syncMap |-> m, syncMapSize |-> size,
     addPolicy |-> policy, addEvent |-> event]

\* sync.Map
EmptyMap == [k \in {} |-> NilProp]
Load(m, k) == IF k \in DOMAIN m THEN [value |-> m[k], ok |-> TRUE]
              ELSE [value |-> NilProp, ok |-> FALSE]
\* Store into a fresh map: the entries stored before are dropped
StoreIntoFreshMap(m, k, v) == [x \in {k} |-> v]
\* Store as LoadOrStore would do it: an entry already present is kept
StoreKeepsOld(m, k, v) ==
    [x \in DOMAIN m \cup {k} |-> IF x \in DOMAIN m THEN m[x] ELSE v]
Store(m, k, v) == [x \in DOMAIN m \cup {k} |-> IF x = k THEN v ELSE m[x]]
MapDelete(m, k) == [x \in DOMAIN m \ {k} |-> m[x]]

newDefaultProperties(f, policy, event) == Default(f, EmptyMap, 0, policy, event)

\* what a collection operation hands back: the collection after it, the
\* returned triple, the bulk count and the add-event notifications it made
Out(c, prop, ok, err, count, events) ==
    [c |-> c, prop |-> prop, ok |-> ok, err |-> err, count |-> count, events |-> events]

Named(c, name) ==
    LET l == Load(c.syncMap, name)
    IN  IF l.ok THEN [prop |-> l.value, ok |-> TRUE] ELSE [prop |-> NilProp, ok |-> FALSE]

Size(c) == c.syncMapSize

\* List: the stored properties in one of the orders sync.Map.Range may visit
RECURSIVE RangeOver(_, _)
RangeOver(m, keys) ==
    IF keys = {} THEN <<>>
    ELSE LET k == CHOOSE x \in keys : TRUE
         IN  <<m[k]>> \o RangeOver(m, keys \ {k})
List(c) == RangeOver(c.syncMap, DOMAIN c.syncMap)

\* the notification PropertyAdded receives, with what Named finds at that time
Notification(c, prop) == [prop |-> prop, found |-> Named(c, Name(prop))]

\* the Store with the counter incremented for a new name only
StoreAndCountNew(c, finalProp) ==
    [c EXCEPT !.syncMap = Store(c.syncMap, Name(finalProp), finalProp),
              !.syncMapSize = IF Load(c.syncMap, Name(finalProp)).ok THEN c.syncMapSize
                              ELSE (c.syncMapSize + 1) % UintMod]

StoreAndCount(c, finalProp) ==
    [c EXCEPT !.syncMap = Store(c.syncMap, Name(finalProp), finalProp),
              !.syncMapSize = (c.syncMapSize + 1) % UintMod]

\* AddProperty without the `if !add` return: a vetoed property is stored
AddPropertyIgnoresVeto(c, givenProp) ==
    LET r == IF c.addPolicy # "nil" THEN RunAllowAdd(c.addPolicy, givenProp)
             ELSE Res(givenProp, TRUE, NoError)
        finalProp == r.prop
    IN  IF r.err # NoError THEN Out(c, givenProp, FALSE, r.err, 0, <<>>)
        ELSE IF finalProp = NilProp
             THEN Out(c, NilProp, FALSE, PlainError("panic"), 0, <<>>)
        ELSE LET d == StoreAndCount(c, finalProp)
             IN  Out(d, finalProp, TRUE, NoError, 0,
                     IF c.addEvent THEN <<Notification(d, finalProp)>> ELSE <<>>)

\* AddProperty storing finalProp under the name of givenProp
AddPropertyKeyedByGiven(c, givenProp) ==
    LET r == IF c.addPolicy # "nil" THEN RunAllowAdd(c.addPolicy, givenProp)
             ELSE Res(givenProp, TRUE, NoError)
        finalProp == r.prop
    IN  IF r.err # NoError THEN Out(c, givenProp, FALSE, r.err, 0, <<>>)
        ELSE IF ~r.ok THEN Out(c, finalProp, FALSE, NoError, 0, <<>>)
        ELSE IF finalProp = NilProp
             THEN Out(c, NilProp, FALSE, PlainError("panic"), 0, <<>>)
        ELSE LET d == [c EXCEPT !.syncMap = Store(c.syncMap, Name(givenProp), finalProp),
                                !.syncMapSize = (c.syncMapSize + 1) % UintMod]
             IN  Out(d, finalProp, TRUE, NoError, 0,
                     IF c.addEvent THEN <<Notification(d, finalProp)>> ELSE <<>>)

\* AddProperty reporting an error of the policy as a plain rejection
AddPropertyDropsError(c, givenProp) ==
    LET r == IF c.addPolicy # "nil" THEN RunAllowAdd(c.addPolicy, givenProp)
             ELSE Res(givenProp, TRUE, NoError)
        finalProp == r.prop
    IN  IF r.err # NoError THEN Out(c, givenProp, FALSE, NoError, 0, <<>>)
        ELSE IF ~r.ok THEN Out(c, finalProp, FALSE, NoError, 0, <<>>)
        ELSE IF finalProp = NilProp
             THEN Out(c, NilProp, FALSE, PlainError("panic"), 0, <<>>)
        ELSE LET d == StoreAndCount(c, finalProp)
             IN  Out(d, finalProp, TRUE, NoError, 0,
                     IF c.addEvent THEN <<Notification(d, finalProp)>> ELSE <<>>)

\* AddProperty storing givenProp where the policy returned another property
AddPropertyStoresGiven(c, givenProp) ==
    LET r == IF c.addPolicy # "nil" THEN RunAllowAdd(c.addPolicy, givenProp)
             ELSE Res(givenProp, TRUE, NoError)
        finalProp == r.prop
    IN  IF r.err # NoError THEN Out(c, givenProp, FALSE, r.err, 0, <<>>)
        ELSE IF ~r.ok THEN Out(c, finalProp, FALSE, NoError, 0, <<>>)
        ELSE IF finalProp = NilProp
             THEN Out(c, NilProp, FALSE, PlainError("panic"), 0, <<>>)
        ELSE LET d == StoreAndCount(c, givenProp)
             IN  Out(d, finalProp, TRUE, NoError, 0,
                     IF c.addEvent THEN <<Notification(d, finalProp)>> ELSE <<>>)

\* AddProperty with PropertyAdded called before the Store
AddPropertyNotifiesFirst(c, givenProp) ==
    LET r == IF c.addPolicy # "nil" THEN RunAllowAdd(c.addPolicy, givenProp)
             ELSE Res(givenProp, TRUE, NoError)
        finalProp == r.prop
    IN  IF r.err # NoError THEN Out(c, givenProp, FALSE, r.err, 0, <<>>)
        ELSE IF ~r.ok THEN Out(c, finalProp, FALSE, NoError, 0, <<>>)
        ELSE IF finalProp = NilProp
             THEN Out(c, NilProp, FALSE, PlainError("panic"), 0, <<>>)
        ELSE Out(StoreAndCount(c, finalProp), finalProp, TRUE, NoError, 0,
                 IF c.addEvent THEN <<Notification(c, finalProp)>> ELSE <<>>)

AddProperty(c, givenProp) ==
    LET r == IF c.addPolicy # "nil" THEN RunAllowAdd(c.addPolicy, givenProp)
             ELSE Res(givenProp, TRUE, NoError)
        finalProp == r.prop
    IN  IF r.err # NoError THEN Out(c, givenProp, FALSE, r.err, 0, <<>>)
        ELSE IF ~r.ok THEN Out(c, finalProp, FALSE, NoError, 0, <<>>)
        ELSE IF finalProp = NilProp
             \* finalProp.Name(ctx) on a nil Property panics
             THEN Out(c, NilProp, FALSE, PlainError("panic"), 0, <<>>)
        ELSE LET d == StoreAndCount(c, finalProp)
             IN  Out(d, finalProp, TRUE, NoError, 0,
                     IF c.addEvent THEN <<Notification(d, finalProp)>> ELSE <<>>)

AddChecked(c, name, value, allow, options) ==
    LET r == FromAny(c.pf, name, value, options)
        a == IF allow # "nil" THEN RunAllow(allow, name, value, r.prop) ELSE r
    IN  IF r.err # NoError THEN Out(c, NilProp, FALSE, r.err, 0, <<>>)
        ELSE IF a.ok THEN AddProperty(c, a.prop)
        ELSE Out(c, a.prop, a.ok, NoError, 0, <<>>)

AddParsedChecked(c, name, value, allow, options) ==
    LET r == FromText(c.pf, name, value, options)
        a == IF allow # "nil" THEN RunAllow(allow, name, value, r.prop) ELSE r
    IN  IF r.err # NoError THEN Out(c, NilProp, FALSE, r.err, 0, <<>>)
        ELSE IF a.ok THEN AddProperty(c, a.prop)
        ELSE Out(c, a.prop, a.ok, NoError, 0, <<>>)

AddParsed(c, name, value, options) == AddParsedChecked(c, name, value, "nil", options)

Add(c, name, value, options) == AddChecked(c, name, value, "nil", options)

\* Property.Copy: m[string(p.PropName)] = the value the property holds
Copy(p, m) == [k \in DOMAIN m \cup {Name(p)} |-> IF k = Name(p) THEN AnyValue(p) ELSE m[k]]

\* what a MapAssignFunc hands back: the map after it and its result
Assigned(dest, keepGoing) == [dest |-> dest, keepGoing |-> keepGoing]

\* DefaultMapAssign without the return of true: the Range stops after the
\* first property
DefaultMapAssignOnce(p, dest) == Assigned(Copy(p, dest), FALSE)

DefaultMapAssign(p, dest) == Assigned(Copy(p, dest), TRUE)

\* MapAssignFunc: DefaultMapAssign, or a function that copies nothing and
\* stops the Range
MapAssignBehaviours == {"default", "stop"}
RunMapAssign(b, p, dest) ==
    IF b = "default" THEN DefaultMapAssign(p, dest) ELSE Assigned(dest, FALSE)

\* what Map hands back: the caller's map after it and the count
Exported(dest, count) == [dest |-> dest, count |-> count]

\* the Range of Map over the properties not yet visited, in the order `order`
RECURSIVE MapRange(_, _, _, _, _)
MapRange(m, assign, order, dest, count) ==
    IF order = <<>> THEN Exported(dest, count)
    ELSE LET a == RunMapAssign(assign, m[Head(order)], dest)
         IN  IF a.keepGoing
             THEN MapRange(m, assign, Tail(order), a.dest, (count + 1) % UintMod)
             ELSE Exported(a.dest, count)

Map(c, dest, assign, order) == MapRange(c.syncMap, assign, order, dest, 0)

\* a Go map argument: nil, or the map m
NilItems == [nil |-> TRUE, m |-> [k \in {} |-> NilV]]
Items(m) == [nil |-> FALSE, m |-> m]

\* the loop of AddMap without the return on an error: the entries after a
\* failed one are visited too, and the first error is returned at the end
RECURSIVE AddMapLoopKeepsGoing(_, _, _, _, _, _, _)
AddMapLoopKeepsGoing(c, m, allow, options, order, count, events) ==
    IF order = <<>> THEN Out(c, NilProp, FALSE, NoError, count, events)
    ELSE LET r == AddChecked(c, Head(order), m[Head(order)], allow, options)
             rest == AddMapLoopKeepsGoing(r.c, m, allow, options, Tail(order),
                                          IF r.ok THEN count + 1 ELSE count,
                                          events \o r.events)
         IN  IF r.err # NoError THEN [rest EXCEPT !.err = r.err] ELSE rest

\* the loop of AddMap over the entries not yet visited, in the order `order`
RECURSIVE AddMapLoop(_, _, _, _, _, _, _)
AddMapLoop(c, m, allow, options, order, count, events) ==
    IF order = <<>> THEN Out(c, NilProp, FALSE, NoError, count, events)
    ELSE LET r == AddChecked(c, Head(order), m[Head(order)], allow, options)
         IN  IF r.err # NoError
             THEN Out(r.c, NilProp, FALSE, r.err, count, events \o r.events)
             ELSE AddMapLoop(r.c, m, allow, options, Tail(order),
                             IF r.ok THEN count + 1 ELSE count, events \o r.events)

\* AddMap without the `if items == nil` return: the loop ranges over a nil
\* map, which has no entries
AddMapUnchecked(c, items, allow, options, order) ==
    AddMapLoop(c, items.m, allow, options, order, 0, <<>>)

AddMap(c, items, allow, options, order) ==
    IF items.nil THEN Out(c, NilProp, FALSE, PlainError("ItemsNil"), 0, <<>>)
    ELSE AddMapLoop(c, items.m, allow, options, order, 0, <<>>)

RECURSIVE AddTextMapLoop(_, _, _, _, _, _, _)
AddTextMapLoop(c, m, allow, options, order, count, events) ==
    IF order = <<>> THEN Out(c, NilProp, FALSE, NoError, count, events)
    ELSE LET r == AddParsedChecked(c, Head(order), m[Head(order)], allow, options)
         IN  IF r.err # NoError
             THEN Out(r.c, NilProp, FALSE, r.err, count, events \o r.events)
             ELSE AddTextMapLoop(r.c, m, allow, options, Tail(order),
                                 IF r.ok THEN count + 1 ELSE count, events \o r.events)

AddTextMap(c, items, allow, options, order) ==
    IF items.nil THEN Out(c, NilProp, FALSE, PlainError("ItemsNil"), 0, <<>>)
    ELSE AddTextMapLoop(c, items.m, allow, options, order, 0, <<>>)

\* the removal without the decrement of the counter
RemoveOnly(c, name) == [c EXCEPT !.syncMap = MapDelete(c.syncMap, name)]

RemoveAndCount(c, name) ==
    [c EXCEPT !.syncMap = MapDelete(c.syncMap, name),
              !.syncMapSize = (c.syncMapSize - 1) % UintMod]

\* Delete without the `if !ok` return
DeleteUnchecked(c, name) == Out(RemoveAndCount(c, name), NilProp, TRUE, NoError, 0, <<>>)

Delete(c, name) ==
    IF ~Load(c.syncMap, name).ok THEN Out(c, NilProp, FALSE, NoError, 0, <<>>)
    ELSE Out(RemoveAndCount(c, name), NilProp, TRUE, NoError, 0, <<>>)

DeleteProperty(c, prop) == Delete(c, Name(prop))

\* a MutableProperties result: nil, or the collection
NilProperties == [nil |-> TRUE, c |-> newDefaultProperties(ThePropertyFactory, "nil", FALSE)]
Properties(c) == [nil |-> FALSE, c |-> c]

\* the results (MutableProperties, uint, error) of the factory, with the
\* add-event notifications made on the way
Built(props, count, err, events) ==
    [props |-> props, count |-> count, err |-> err, events |-> events]

\* fromStringMap (factory.go): EmptyMutable, then AddMap; `policy` and
\* `event` are the AddPropertyPolicy and AddPropertyEvent among the options
\* the collection a bulk insert has filled, with the count and the error of
\* the bulk insert
Filled(o) == Built(Properties(o.c), o.count, o.err, o.events)

fromStringMap(f, policy, event, items, allow, options, order) ==
    IF items.nil THEN Built(NilProperties, 0, PlainError("ItemsNil"), <<>>)
    ELSE Filled(AddMap(newDefaultProperties(f, policy, event), items, allow,
                       options, order))

\* MutableFromStringMap / ImmutableFromStringMap
MutableFromStringMap(f, policy, event, items, allow, options, order) ==
    fromStringMap(f, policy, event, items, allow, options, order)
ImmutableFromStringMap(f, policy, event, items, allow, options, order) ==
    fromStringMap(f, policy, event, items, allow, options, order)

(***************************************************************************)
(* The front-matter scanner fromYAMLFrontMatter (factory.go).  A buffer is *)
(* the sequence of its bytes.                                              *)
(***************************************************************************)
\* unicode.IsSpace, for the bytes of the model
IsSpace(c) == c \in {" ", "\n", "\t", "\r"}

\* strings.TrimSpace / bytes.TrimSpace
RECURSIVE TrimLeft(_)
TrimLeft(t) == IF t # <<>> /\ IsSpace(t[1]) THEN TrimLeft(Tail(t)) ELSE t
RECURSIVE TrimRight(_)
TrimRight(t) ==
    IF t # <<>> /\ IsSpace(t[Len(t)]) THEN TrimRight(SubSeq(t, 1, Len(t) - 1)) ELSE t
TrimSpace(t) == TrimRight(TrimLeft(t))

Delimiter == <<"-", "-", "-">>

\* buf.ReadString('\n') with pos bytes of b consumed: the bytes up to and
\* including the next newline, or the rest of the buffer and io.EOF
ReadString(b, pos) ==
    LET ends == {i \in (pos + 1)..Len(b) : b[i] = "\n"}
    IN  IF ends = {}
        THEN [line |-> SubSeq(b, pos + 1, Len(b)), pos |-> Len(b), eof |-> TRUE]
        ELSE LET i == CHOOSE x \in ends : \A y \in ends : x <= y
             IN  [line |-> SubSeq(b, pos + 1, i), pos |-> i, eof |-> FALSE]

\* the scanner state when the loop ends
ScanState(inside, start, end) ==
    [insideFrontMatter |-> inside, yamlStartIndex |-> start, yamlEndIndex |-> end]

\* the loop with HasPrefix in the place of the comparison with "---"
RECURSIVE ScanLoopByPrefix(_, _, _, _)
ScanLoopByPrefix(b, pos, inside, start) ==
    LET r == ReadString(b, pos)
        t == TrimSpace(r.line)
    IN  IF r.eof THEN ScanState(inside, start, 0)
        ELSE IF ~(Len(t) >= 2 /\ SubSeq(t, 1, 2) = <<"-", "-">>)
             THEN ScanLoopByPrefix(b, r.pos, inside, start)
        ELSE IF ~inside THEN ScanLoopByPrefix(b, r.pos, TRUE, r.pos)
        ELSE ScanState(inside, start, r.pos)

\* the loop of fromYAMLFrontMatter, with pos = len(b) - buf.Len()
RECURSIVE ScanLoop(_, _, _, _)
ScanLoop(b, pos, inside, start) ==
    LET r == ReadString(b, pos)
    IN  IF r.eof THEN ScanState(inside, start, 0)
        ELSE IF TrimSpace(r.line) # Delimiter THEN ScanLoop(b, r.pos, inside, start)
        ELSE IF ~inside THEN ScanLoop(b, r.pos, TRUE, r.pos)
        ELSE ScanState(inside, start, r.pos)

\* b[from:to] of Go
Slice(b, from, to) == SubSeq(b, from + 1, to)

\* a []byte result: nil, or the bytes
NilBytes == [nil |-> TRUE, bytes |-> <<>>]
Bytes(b) == [nil |-> FALSE, bytes |-> b]

\* what yaml.Unmarshal made of the block: an error, or the decoded map
DecodeFailure == [ok |-> FALSE, items |-> NilItems]
Decoded(m) == [ok |-> TRUE, items |-> Items(m)]

\* the YAML document a block holds: not YAML at all, or a mapping from keys
\* to nodes; a node is a plain scalar with its text, or a nested mapping
Scalar(text) == [scalar |-> TRUE, text |-> text]
Nested == [scalar |-> FALSE, text |-> <<>>]
InvalidYAML == [valid |-> FALSE, m |-> [k \in {} |-> Nested]]
Document(m) == [valid |-> TRUE, m |-> m]

\* the type yaml resolves a plain scalar to
YAMLKind(node) ==
    IF ~node.scalar THEN "map"
    ELSE IF node.text \in {<<"t", "r", "u", "e">>, <<"f", "a", "l", "s", "e">>} THEN "bool"
    ELSE IF ParseIntOk(node.text) THEN "int"
    ELSE "str"

\* the value yaml.Unmarshal stores for a node in a map[string]interface{}; a
\* text that looks like a date stays a string
NodeValue(node) ==
    CASE YAMLKind(node) = "map" -> Val("map[interface {}]interface {}", <<>>, 0, FALSE, <<>>)
      [] YAMLKind(node) = "bool" -> BoolV(node.text = <<"t", "r", "u", "e">>)
      [] YAMLKind(node) = "int" -> IntV("int", ParseInt(node.text))
      [] OTHER -> StrV(node.text)

\* yaml.Unmarshal(block, items) with items a map[string]interface{}
UnmarshalAny(doc) ==
    IF ~doc.valid THEN DecodeFailure
    ELSE Decoded([k \in DOMAIN doc.m |-> NodeValue(doc.m[k])])

\* yaml.Unmarshal(block, items) with items a map[string]string: a scalar is
\* stored as its text, a nested mapping is a type error
UnmarshalText(doc) ==
    IF ~doc.valid \/ \E k \in DOMAIN doc.m : ~doc.m[k].scalar THEN DecodeFailure
    ELSE Decoded([k \in DOMAIN doc.m |-> doc.m[k].text])

\* the call and its four results, with the scanner state it reached, the
\* block it handed to the decoder, the document in the block and the error
\* the bulk insert returned
FrontMatter(smartParseFM, scan, block, doc, bulkErr, body, props, count, err) ==
    [called |-> TRUE, smartParseFM |-> smartParseFM, scan |-> scan, block |-> block,
     doc |-> doc, bulkErr |-> bulkErr,
     body |-> body, props |-> props, count |-> count, err |-> err]
NotCalled == [called |-> FALSE, smartParseFM |-> FALSE, scan |-> ScanState(FALSE, 0, 0),
              block |-> <<>>, doc |-> InvalidYAML, bulkErr |-> NoError,
              body |-> NilBytes, props |-> NilProperties, count |-> 0,
              err |-> NoError]

\* what fromYAMLFrontMatter returns after the bulk insert o of the decoded
\* entries: the trimmed bytes after the closing delimiter line, the
\* collection and the count, and the `err` of factory.go:215
Extracted(smartParseFM, scan, block, doc, b, o) ==
    FrontMatter(smartParseFM, scan, block, doc, o.err,
                Bytes(TrimSpace(Slice(b, scan.yamlEndIndex, Len(b)))),
                o.props, o.count, NoError)

\* fromYAMLFrontMatter with the branch of smartParseFM = false taken in
\* both modes
fromYAMLFrontMatterNeverSmart(f, policy, event, b, smartParseFM, allow, allowText, doc, order) ==
    LET scan == ScanLoop(b, 0, FALSE, 0)
        block == Slice(b, scan.yamlStartIndex, scan.yamlEndIndex)
        decoded == UnmarshalAny(doc)
    IN  IF ~scan.insideFrontMatter
        THEN FrontMatter(smartParseFM, scan, <<>>, InvalidYAML, NoError,
                         Bytes(b), NilProperties, 0, NoError)
        ELSE IF scan.yamlEndIndex = 0
        THEN FrontMatter(smartParseFM, scan, <<>>, InvalidYAML, NoError,
                         NilBytes, NilProperties, 0,
                         Err("FrontMatterParser", <<>>, "", scan.insideFrontMatter,
                             scan.yamlStartIndex, scan.yamlEndIndex))
        ELSE IF ~decoded.ok
        THEN FrontMatter(smartParseFM, scan, block, doc, NoError,
                         NilBytes, NilProperties, 0, NoError)
        ELSE Extracted(smartParseFM, scan, block, doc, b,
                       fromStringMap(f, policy, event, decoded.items, allow, <<>>, order))

\* fromYAMLFrontMatter; `policy` and `event` are the AddPropertyPolicy and
\* AddPropertyEvent among the options, `doc` is the document yaml.Unmarshal
\* finds in the block and `order` the order in which the bulk insert ranges
\* over the decoded map
\* fromYAMLFrontMatter handing the whole buffer back as the body when the
\* block does not decode
fromYAMLFrontMatterKeepsBody(f, policy, event, b, smartParseFM, allow, allowText, doc, order) ==
    LET scan == ScanLoop(b, 0, FALSE, 0)
        block == Slice(b, scan.yamlStartIndex, scan.yamlEndIndex)
        decoded == IF smartParseFM THEN UnmarshalText(doc) ELSE UnmarshalAny(doc)
    IN  IF ~scan.insideFrontMatter
        THEN FrontMatter(smartParseFM, scan, <<>>, InvalidYAML, NoError,
                         Bytes(b), NilProperties, 0, NoError)
        ELSE IF scan.yamlEndIndex = 0
        THEN FrontMatter(smartParseFM, scan, <<>>, InvalidYAML, NoError,
                         NilBytes, NilProperties, 0,
                         Err("FrontMatterParser", <<>>, "", scan.insideFrontMatter,
                             scan.yamlStartIndex, scan.yamlEndIndex))
        ELSE IF ~decoded.ok
        THEN FrontMatter(smartParseFM, scan, block, doc, NoError,
                         Bytes(b), NilProperties, 0, NoError)
        ELSE Extracted(smartParseFM, scan, block, doc, b,
                       IF smartParseFM
                       THEN Filled(AddTextMap(newDefaultProperties(f, policy, event),
                                              decoded.items, allowText, <<>>, order))
                       ELSE fromStringMap(f, policy, event, decoded.items, allow,
                                          <<>>, order))

fromYAMLFrontMatter(f, policy, event, b, smartParseFM, allow, allowText, doc, order) ==
    LET scan == ScanLoop(b, 0, FALSE, 0)
        block == Slice(b, scan.yamlStartIndex, scan.yamlEndIndex)
        decoded == IF smartParseFM THEN UnmarshalText(doc) ELSE UnmarshalAny(doc)
    IN  IF ~scan.insideFrontMatter
        THEN FrontMatter(smartParseFM, scan, <<>>, InvalidYAML, NoError,
                         Bytes(b), NilProperties, 0, NoError)
        ELSE IF scan.yamlEndIndex = 0
        THEN FrontMatter(smartParseFM, scan, <<>>, InvalidYAML, NoError,
                         NilBytes, NilProperties, 0,
                         Err("FrontMatterParser", <<>>, "", scan.insideFrontMatter,
                             scan.yamlStartIndex, scan.yamlEndIndex))
        ELSE IF ~decoded.ok
        THEN FrontMatter(smartParseFM, scan, block, doc, NoError,
                         NilBytes, NilProperties, 0, NoError)
        \* the error of the bulk insert is assigned to the `err` declared by
        \* `err := yaml.Unmarshal(...)` inside the branch (factory.go:219, 227);
        \* the `err` returned is the one of line 215, which nothing assigns
        ELSE Extracted(smartParseFM, scan, block, doc, b,
                       IF smartParseFM
                       THEN Filled(AddTextMap(newDefaultProperties(f, policy, event),
                                              decoded.items, allowText, <<>>, order))
                       ELSE fromStringMap(f, policy, event, decoded.items, allow,
                                          <<>>, order))

\* MutableFromFrontMatter
MutableFromFrontMatter(f, policy, event, b, smartParseFM, allow, allowText, doc, order) ==
    fromYAMLFrontMatter(f, policy, event, b, smartParseFM, allow, allowText, doc, order)

(***************************************************************************)
(* State.                                                                  *)
(***************************************************************************)
VARIABLES
    pf,           \* Default.pf: the property factory of the collection
    syncMap,      \* Default.syncMap
    syncMapSize,  \* Default.syncMapSize
    addPolicy,    \* Default.addPolicy
    addEvent,     \* Default.addEvent: TRUE when an add-event hook is set
    ret,          \* the last call of the single caller: its arguments, the
                  \* collection before it and what it returned
    job,          \* concurrent callers: the call each caller makes
    pc,           \* concurrent callers: where each caller is in its call
    reg,          \* concurrent callers: the counter value each has read
    cret,         \* concurrent callers: what each call returned
    content,      \* the buffer given to MutableFromFrontMatter
    fm,           \* the call of MutableFromFrontMatter and what it returned
    made,         \* the last call of the property factory and what it returned
    mapped        \* the last call of Map: the caller's map before and after it

vars == <<pf, syncMap, syncMapSize, addPolicy, addEvent, ret, job, pc, reg, cret,
          content, fm, made, mapped>>

\* a call of FromAny (value) or FromText (text) and its results
Made(fn, name, value, text, options, res) ==
    [fn |-> fn, name |-> name, value |-> value, text |-> text, options |-> options,
     prop |-> res.prop, ok |-> res.ok, err |-> res.err]
NotMade == Made("none", <<>>, NilV, <<>>, <<>>, Res(NilProp, FALSE, NoError))

\* a call of Map on the caller's map `before`, and what it left and returned
Mapped(called, assign, before, e) ==
    [called |-> called, assign |-> assign, before |-> before, dest |-> e.dest,
     count |-> e.count]
EmptyDest == [k \in {} |-> NilV]
NotMapped == Mapped(FALSE, "default", EmptyDest, Exported(EmptyDest, 0))

Procs == 1..NumProcs

\* the collection as the struct the methods receive
Self == Default(pf, syncMap, syncMapSize, addPolicy, addEvent)

\* a call of the single caller: its arguments (for a bulk insert the map
\* and the order in which the loop ranged over it), the collection before it
\* and its results
Call(op, name, given, pre, o) ==
    [op |-> op, name |-> name, given |-> given, pre |-> pre,
     items |-> NilItems, allow |-> "nil", order |-> <<>>, absent |-> FALSE,
     prop |-> o.prop, ok |-> o.ok, err |-> o.err, count |-> o.count,
     events |-> o.events]

\* the factories, option lists and arguments the single caller uses
Factories == {ThePropertyFactory,
              PropertyFactory("nil", "nil", "nil", "veto"),
              PropertyFactory("nil", "nil", "picky", "nil"),
              PropertyFactory("decline", "nil", "nil", "nil")}
OptionLists == {<<>>, <<Option("CustomCreatorFunc", "accept")>>}
\* the options are read by handleUnknownType alone: they vary with the
\* values of a type FromAny does not know
OptionsFor(value) == IF value.t = "struct" THEN OptionLists ELSE {<<>>}
\* AddChecked / AddParsedChecked with a nil allow function are Add / AddParsed
GivenAllows == AllowBehaviours \ {"nil"}
\* the calls that vary no option
NoOptions == {<<>>}
\* the allow functions handed to the bulk inserts
BulkAllows == {"nil", "default"}
\* values and texts handed to the calls that take an allow function
MapValues == {StrV(<<"x">>), OtherV(<<"o">>)}
MapTexts == {<<"7">>, <<"x">>}
GivenProps == {DefaultTextProperty(n, StrV(<<"x">>)) : n \in Names}
MapsOver(values) == UNION {[d -> values] : d \in SUBSET Names}
Orders(m) == {o \in [1..Cardinality(DOMAIN m) -> DOMAIN m] :
                 \A i, j \in DOMAIN o : i # j => o[i] # o[j]}

\* a call of a concurrent caller
Job(op, name, value) == [op |-> op, name |-> name, value |-> value]
Idle == Job("none", <<>>, NilV)

\* EmptyMutable: a collection as newDefaultProperties builds it
Init ==
    /\ pf \in Factories
    /\ addPolicy \in PolicyBehaviours
    /\ addEvent \in BOOLEAN
    /\ pf # ThePropertyFactory => addPolicy \in {"nil", "veto"} /\ addEvent
    /\ addPolicy # "nil" => addEvent
    /\ syncMap = newDefaultProperties(pf, addPolicy, addEvent).syncMap
    /\ syncMapSize = newDefaultProperties(pf, addPolicy, addEvent).syncMapSize
    /\ ret = Call("new", <<>>, NilProp, newDefaultProperties(pf, addPolicy, addEvent),
                  Out(Self, NilProp, FALSE, NoError, 0, <<>>))
    /\ job = [p \in Procs |-> Idle]
    /\ pc = [p \in Procs |-> "done"]
    /\ reg = [p \in Procs |-> 0]
    /\ cret = [p \in Procs |-> Res(NilProp, FALSE, NoError)]
    /\ content = <<>>
    /\ fm = NotCalled
    /\ made = NotMade
    /\ mapped = NotMapped

\* the single caller's call returned o
Return(op, name, given, o) ==
    /\ syncMap' = o.c.syncMap
    /\ syncMapSize' = o.c.syncMapSize
    /\ ret' = Call(op, name, given, Self, o)
    /\ UNCHANGED <<pf, addPolicy, addEvent, job, pc, reg, cret, content, fm, made, mapped>>

\* the single caller's insert with the allow function allow returned o
ReturnChecked(op, name, allow, o) ==
    /\ syncMap' = o.c.syncMap
    /\ syncMapSize' = o.c.syncMapSize
    /\ ret' = [Call(op, name, NilProp, Self, o) EXCEPT !.allow = allow]
    /\ UNCHANGED <<pf, addPolicy, addEvent, job, pc, reg, cret, content, fm, made, mapped>>

\* the single caller's bulk insert returned o
ReturnBulk(op, items, allow, order, o) ==
    /\ syncMap' = o.c.syncMap
    /\ syncMapSize' = o.c.syncMapSize
    /\ ret' = [Call(op, <<>>, NilProp, Self, o)
                 EXCEPT !.items = items, !.allow = allow, !.order = order]
    /\ UNCHANGED <<pf, addPolicy, addEvent, job, pc, reg, cret, content, fm, made, mapped>>

CallAdd ==
    /\ syncMapSize < MaxSize
    /\ \E name \in Names, value \in AnyValues :
          \E options \in OptionsFor(value) :
             Return("Add", name, NilProp, Add(Self, name, value, options))

CallAddParsed ==
    /\ syncMapSize < MaxSize
    /\ \E name \in Names, value \in Texts, options \in NoOptions :
          Return("AddParsed", name, NilProp, AddParsed(Self, name, value, options))

CallAddChecked ==
    /\ syncMapSize < MaxSize
    /\ \E name \in Names, value \in MapValues, allow \in GivenAllows :
          \E options \in OptionsFor(value) :
             ReturnChecked("AddChecked", name, allow,
                           AddChecked(Self, name, value, allow, options))

CallAddParsedChecked ==
    /\ syncMapSize < MaxSize
    /\ \E name \in Names, value \in MapTexts, allow \in GivenAllows,
          options \in NoOptions :
          ReturnChecked("AddParsedChecked", name, allow,
                        AddParsedChecked(Self, name, value, allow, options))

CallAddProperty ==
    /\ syncMapSize < MaxSize
    /\ \E givenProp \in GivenProps :
          Return("AddProperty", Name(givenProp), givenProp, AddProperty(Self, givenProp))

CallAddMap ==
    \E items \in {NilItems} \cup {Items(m) : m \in MapsOver(MapValues)},
       allow \in BulkAllows, options \in NoOptions :
       /\ syncMapSize + Cardinality(DOMAIN items.m) <= MaxSize
       /\ \E order \in Orders(items.m) :
             ReturnBulk("AddMap", items, allow, order,
                        AddMap(Self, items, allow, options, order))

CallAddTextMap ==
    \E items \in {NilItems} \cup {Items(m) : m \in MapsOver(MapTexts)},
       allow \in BulkAllows, options \in NoOptions :
       /\ syncMapSize + Cardinality(DOMAIN items.m) <= MaxSize
       /\ \E order \in Orders(items.m) :
             ReturnBulk("AddTextMap", items, allow, order,
                        AddTextMap(Self, items, allow, options, order))

\* the caller takes the collection the factory returned as b in the place of
\* the empty one it has; a nil result leaves it with the empty one
ReturnBuilt(op, items, allow, order, b) ==
    /\ syncMap' = IF b.props.nil THEN syncMap ELSE b.props.c.syncMap
    /\ syncMapSize' = IF b.props.nil THEN syncMapSize ELSE b.props.c.syncMapSize
    /\ ret' = [op |-> op, name |-> <<>>, given |-> NilProp, pre |-> Self,
               items |-> items, allow |-> allow, order |-> order,
               absent |-> b.props.nil, prop |-> NilProp, ok |-> FALSE,
               err |-> b.err, count |-> b.count, events |-> b.events]
    /\ UNCHANGED <<pf, addPolicy, addEvent, job, pc, reg, cret, content, fm, made, mapped>>

CallFromStringMap ==
    /\ ret.op = "new"
    /\ \E items \in {NilItems} \cup {Items(m) : m \in MapsOver(MapValues)},
          allow \in BulkAllows :
          \E order \in Orders(items.m) :
             \/ ReturnBuilt("MutableFromStringMap", items, allow, order,
                            MutableFromStringMap(pf, addPolicy, addEvent, items, allow,
                                                 <<>>, order))
             \/ ReturnBuilt("ImmutableFromStringMap", items, allow, order,
                            ImmutableFromStringMap(pf, addPolicy, addEvent, items,
                                                   allow, <<>>, order))

CallDelete ==
    \E name \in Names : Return("Delete", name, NilProp, Delete(Self, name))

CallDeleteProperty ==
    \E prop \in GivenProps :
       Return("DeleteProperty", Name(prop), prop, DeleteProperty(Self, prop))

Next ==
    \/ CallAdd
    \/ CallAddParsed
    \/ CallAddChecked
    \/ CallAddParsedChecked
    \/ CallAddProperty
    \/ CallAddMap
    \/ CallAddTextMap
    \/ CallFromStringMap
    \/ CallDelete
    \/ CallDeleteProperty

Spec == Init /\ [][Next]_vars

(***************************************************************************)
(* Concurrent callers of one collection.  Each caller makes one call; the  *)
(* call is a sequence of accesses to the shared fields: sync.Map's Load,   *)
(* Store and Delete are atomic, and syncMapSize++ / syncMapSize-- are an   *)
(* unsynchronised read followed by an unsynchronised write.                *)
(***************************************************************************)
\* the name every caller may use, and the name only caller p uses
SharedName == <<"a">>
OwnNames == <<<<"b">>, <<"c">>, <<"d">>, <<"e">>, <<"f">>>>
OwnName(p) == OwnNames[p]

JobsOf(p) == {Idle,
              Job("Add", OwnName(p), IntV("int", p)),
              Job("Add", SharedName, IntV("int", p)),
              Job("Delete", SharedName, NilV)}

\* the callers share the collection the factory returned as o
SharedFrom(o) ==
    /\ syncMap = o.props.c.syncMap
    /\ syncMapSize = o.props.c.syncMapSize
    /\ ret = Call("new", <<>>, NilProp, o.props.c,
                  Out(o.props.c, NilProp, FALSE, o.err, o.count, o.events))

\* the collection is built by MutableFromStringMap, then shared
InitConc ==
    /\ pf = ThePropertyFactory
    /\ addPolicy = "nil"
    /\ addEvent = FALSE
    /\ \E m \in UNION {[d -> {StrV(<<"x">>)}] : d \in SUBSET {SharedName}} :
          \E order \in Orders(m) :
             SharedFrom(MutableFromStringMap(pf, addPolicy, addEvent, Items(m), "nil",
                                             <<>>, order))
    /\ job \in [Procs -> UNION {JobsOf(p) : p \in Procs}]
    /\ \A p \in Procs : job[p] \in JobsOf(p)
    /\ pc = [p \in Procs |-> IF job[p] = Idle THEN "done" ELSE "start"]
    /\ reg = [p \in Procs |-> 0]
    /\ cret = [p \in Procs |-> Res(NilProp, FALSE, NoError)]
    /\ content = <<>>
    /\ fm = NotCalled
    /\ made = NotMade
    /\ mapped = NotMapped

\* Add up to and including p.syncMap.Store (properties.go:185)
AddProperty_Store(p) ==
    /\ pc[p] = "start" /\ job[p].op = "Add"
    /\ LET o == Add(Self, job[p].name, job[p].value, <<>>)
       IN  IF o.ok
           THEN /\ syncMap' = Store(syncMap, Name(o.prop), o.prop)
                /\ pc' = [pc EXCEPT ![p] = "incRead"]
                /\ cret' = [cret EXCEPT ![p] = Res(o.prop, FALSE, NoError)]
           ELSE /\ pc' = [pc EXCEPT ![p] = "done"]
                /\ cret' = [cret EXCEPT ![p] = Res(o.prop, o.ok, o.err)]
                /\ UNCHANGED syncMap
    /\ UNCHANGED <<made, mapped, content, fm, pf, syncMapSize, addPolicy, addEvent, ret, job, reg>>

\* the read of p.syncMapSize++ (properties.go:186)
AddProperty_ReadSize(p) ==
    /\ pc[p] = "incRead"
    /\ reg' = [reg EXCEPT ![p] = syncMapSize]
    /\ pc' = [pc EXCEPT ![p] = "incWrite"]
    /\ UNCHANGED <<made, mapped, content, fm, pf, syncMap, syncMapSize, addPolicy, addEvent, ret, job, cret>>

\* the write of p.syncMapSize++, and the return (properties.go:186-192)
AddProperty_WriteSize(p) ==
    /\ pc[p] = "incWrite"
    /\ syncMapSize' = (reg[p] + 1) % UintMod
    /\ pc' = [pc EXCEPT ![p] = "done"]
    /\ cret' = [cret EXCEPT ![p] = Res(cret[p].prop, TRUE, NoError)]
    /\ UNCHANGED <<made, mapped, content, fm, pf, syncMap, addPolicy, addEvent, ret, job, reg>>

\* p.syncMap.Load and the return of a name not found (properties.go:202-205)
Delete_Load(p) ==
    /\ pc[p] = "start" /\ job[p].op = "Delete"
    /\ IF Load(syncMap, job[p].name).ok
       THEN /\ pc' = [pc EXCEPT ![p] = "delete"]
            /\ UNCHANGED cret
       ELSE /\ pc' = [pc EXCEPT ![p] = "done"]
            /\ cret' = [cret EXCEPT ![p] = Res(NilProp, FALSE, NoError)]
    /\ UNCHANGED <<made, mapped, content, fm, pf, syncMap, syncMapSize, addPolicy, addEvent, ret, job, reg>>

\* p.syncMap.Delete (properties.go:206)
Delete_Delete(p) ==
    /\ pc[p] = "delete"
    /\ syncMap' = MapDelete(syncMap, job[p].name)
    /\ pc' = [pc EXCEPT ![p] = "decRead"]
    /\ UNCHANGED <<made, mapped, content, fm, pf, syncMapSize, addPolicy, addEvent, ret, job, reg, cret>>

\* the read of p.syncMapSize-- (properties.go:207)
Delete_ReadSize(p) ==
    /\ pc[p] = "decRead"
    /\ reg' = [reg EXCEPT ![p] = syncMapSize]
    /\ pc' = [pc EXCEPT ![p] = "decWrite"]
    /\ UNCHANGED <<made, mapped, content, fm, pf, syncMap, syncMapSize, addPolicy, addEvent, ret, job, cret>>

\* the write of p.syncMapSize--, and the return (properties.go:207-208)
Delete_WriteSize(p) ==
    /\ pc[p] = "decWrite"
    /\ syncMapSize' = (reg[p] - 1) % UintMod
    /\ pc' = [pc EXCEPT ![p] = "done"]
    /\ cret' = [cret EXCEPT ![p] = Res(NilProp, TRUE, NoError)]
    /\ UNCHANGED <<made, mapped, content, fm, pf, syncMap, addPolicy, addEvent, ret, job, reg>>

NextConc ==
    \/ \E p \in Procs : AddProperty_Store(p)
    \/ \E p \in Procs : AddProperty_ReadSize(p)
    \/ \E p \in Procs : AddProperty_WriteSize(p)
    \/ \E p \in Procs : Delete_Load(p)
    \/ \E p \in Procs : Delete_Delete(p)
    \/ \E p \in Procs : Delete_ReadSize(p)
    \/ \E p \in Procs : Delete_WriteSize(p)

SpecConc == InitConc /\ [][NextConc]_vars

(***************************************************************************)
(* MutableFromFrontMatter on the buffers of up to MaxLines lines.          *)
(***************************************************************************)
\* the lines the buffers are made of (without their newline)
LineTexts == {<<"-", "-", "-">>, <<" ", "-", "-", "-", " ">>, <<"-", "-">>,
              <<" ", "x">>}

\* the lines joined, each but the last followed by a newline
RECURSIVE JoinLines(_)
JoinLines(lines) ==
    IF lines = <<>> THEN <<>>
    ELSE IF Len(lines) = 1 THEN lines[1]
    ELSE lines[1] \o <<"\n">> \o JoinLines(Tail(lines))

\* the buffers: up to MaxLines lines, the last with or without its newline
Contents ==
    {<<>>} \cup
    UNION {{JoinLines(ls), JoinLines(ls) \o <<"\n">>} :
             ls \in UNION {[1..n -> LineTexts] : n \in 1..MaxLines}}

\* the nodes of the documents, and the documents a block may hold
Nodes == {Scalar(<<"t", "r", "u", "e">>), Scalar(<<"1">>), Scalar(<<"7">>),
          Scalar(<<"2", "0", "0", "6", "-", "0", "1">>), Scalar(<<"x">>), Nested}
\* the nodes of the documents of two entries
PairNodes == {Scalar(<<"7">>), Scalar(<<"x">>), Nested}
Documents ==
    {InvalidYAML}
    \cup {Document(m) : m \in {d \in MapsOver(Nodes) : Cardinality(DOMAIN d) <= 1}}
    \cup {Document(m) : m \in MapsOver(PairNodes)}

\* the add-policies handed to the call among its options
FrontMatterPolicies == {"nil", "veto", "substitute", "error"}

InitFM ==
    /\ pf = ThePropertyFactory
    /\ addPolicy = "nil"
    /\ addEvent = FALSE
    /\ syncMap = EmptyMap
    /\ syncMapSize = 0
    /\ ret = Call("new", <<>>, NilProp, newDefaultProperties(pf, addPolicy, addEvent),
                  Out(Self, NilProp, FALSE, NoError, 0, <<>>))
    /\ job = [p \in Procs |-> Idle]
    /\ pc = [p \in Procs |-> "done"]
    /\ reg = [p \in Procs |-> 0]
    /\ cret = [p \in Procs |-> Res(NilProp, FALSE, NoError)]
    /\ content \in Contents
    /\ fm = NotCalled
    /\ made = NotMade
    /\ mapped = NotMapped

CallMutableFromFrontMatter ==
    /\ ~fm.called
    /\ \E smartParseFM \in BOOLEAN, allow \in {"nil", "default"},
          policy \in FrontMatterPolicies, doc \in Documents :
          \E order \in Orders(doc.m) :
             fm' = MutableFromFrontMatter(pf, policy, addEvent, content,
                                          smartParseFM, allow, allow, doc, order)
    /\ UNCHANGED <<pf, syncMap, syncMapSize, addPolicy, addEvent, ret, job, pc, reg,
                   cret, content, made, mapped>>

NextFM == CallMutableFromFrontMatter

SpecFM == InitFM /\ [][NextFM]_vars

(***************************************************************************)
(* Export: AddMap into an empty collection, then Map into the caller's map. *)
(***************************************************************************)
\* the values of the maps handed to AddMap
ExportValues == {StrV(<<"x">>), BoolV(TRUE), IntV("int", 7), IntV("int64", 7),
                 OtherV(<<"o">>)}

InitExport ==
    /\ pf = ThePropertyFactory
    /\ addPolicy = "nil"
    /\ addEvent \in BOOLEAN
    /\ syncMap = EmptyMap
    /\ syncMapSize = 0
    /\ ret = Call("new", <<>>, NilProp, newDefaultProperties(pf, addPolicy, addEvent),
                  Out(Self, NilProp, FALSE, NoError, 0, <<>>))
    /\ job = [p \in Procs |-> Idle]
    /\ pc = [p \in Procs |-> "done"]
    /\ reg = [p \in Procs |-> 0]
    /\ cret = [p \in Procs |-> Res(NilProp, FALSE, NoError)]
    /\ content = <<>>
    /\ fm = NotCalled
    /\ made = NotMade
    /\ mapped = NotMapped

\* AddMap into the collection while it is the empty one just built
CallAddMapFirst ==
    /\ ret.op = "new"
    /\ \E items \in {Items(m) : m \in MapsOver(ExportValues)} :
          \E order \in Orders(items.m) :
             ReturnBulk("AddMap", items, "nil", order,
                        AddMap(Self, items, "nil", <<>>, order))

\* Map into an empty map, or into the map the last call of Map filled
CallMap ==
    /\ ret.op = "AddMap"
    /\ \E before \in {EmptyDest, mapped.dest}, assign \in MapAssignBehaviours :
          \E order \in Orders(syncMap) :
             mapped' = Mapped(TRUE, assign, before, Map(Self, before, assign, order))
    /\ UNCHANGED <<pf, syncMap, syncMapSize, addPolicy, addEvent, ret, job, pc, reg,
                   cret, content, fm, made>>

NextExport ==
    \/ CallAddMapFirst
    \/ CallMap

SpecExport == InitExport /\ [][NextExport]_vars

(***************************************************************************)
(* FromAny and FromText on the factories, values, texts and options below. *)
(***************************************************************************)
\* the factories: every combination of these custom creators and hooks
FactoryVariants ==
    {PropertyFactory(ccf, cc, achf, ac) :
        ccf \in CreatorBehaviours, cc \in {"nil", "accept", "decline"},
        achf \in {"nil", "pass", "picky", "sloppy"}, ac \in {"nil", "veto", "error"}}

\* the integer types of Go
IntTypes == {"int", "int8", "int16", "int32", "int64",
             "uint", "uint8", "uint16", "uint32", "uint64"}

\* the values handed to FromAny
FactoryValues ==
    {StrV(<<"x">>), ListV(<<<<"x">>, <<"y">>>>), TimeV(200601), BoolV(TRUE), BoolV(FALSE),
     OtherV(<<"o">>), NilV}
    \cup {IntV(t, 7) : t \in IntTypes}

\* the texts handed to FromText
FactoryTexts ==
    {<<"t", "r", "u", "e">>, <<"f", "a", "l", "s", "e">>, <<"1">>, <<"2", "2", "1">>,
     <<"-", "5">>, <<"2", "0", "0", "6">>, <<"2", "0", "0", "6", "-", "0", "1">>,
     <<"x">>, <<>>}

\* the option lists handed to FromAny
FactoryOptions ==
    {<<>>,
     <<Option("CustomCreatorFunc", "accept")>>,
     <<Option("CustomCreatorHandler", "decline")>>,
     <<Option("CustomCreatorHandler", "nil"), Option("CustomCreatorFunc", "nil")>>,
     <<Option("AddPropertyPolicy", "veto"), Option("CustomCreatorHandler", "accept"),
       Option("CustomCreatorFunc", "error")>>,
     <<Option("CustomCreatorFunc", "decline"), Option("CustomCreatorHandler", "accept")>>}

InitFactory ==
    /\ pf \in FactoryVariants
    /\ addPolicy = "nil"
    /\ addEvent = FALSE
    /\ syncMap = EmptyMap
    /\ syncMapSize = 0
    /\ ret = Call("new", <<>>, NilProp, newDefaultProperties(pf, addPolicy, addEvent),
                  Out(Self, NilProp, FALSE, NoError, 0, <<>>))
    /\ job = [p \in Procs |-> Idle]
    /\ pc = [p \in Procs |-> "done"]
    /\ reg = [p \in Procs |-> 0]
    /\ cret = [p \in Procs |-> Res(NilProp, FALSE, NoError)]
    /\ content = <<>>
    /\ fm = NotCalled
    /\ made = NotMade
    /\ mapped = NotMapped

\* the factory keeps no state: each behaviour is one call
CallFromAny ==
    /\ made = NotMade
    /\ \E name \in Names, v \in FactoryValues, options \in FactoryOptions :
          made' = Made("FromAny", name, v, <<>>, options, FromAny(pf, name, v, options))
    /\ UNCHANGED <<pf, syncMap, syncMapSize, addPolicy, addEvent, ret, job, pc, reg,
                   cret, content, fm, mapped>>

CallFromText ==
    /\ made = NotMade
    /\ \E name \in Names, value \in FactoryTexts, options \in {<<>>} :
          made' = Made("FromText", name, NilV, value, options,
                       FromText(pf, name, value, options))
    /\ UNCHANGED <<pf, syncMap, syncMapSize, addPolicy, addEvent, ret, job, pc, reg,
                   cret, content, fm, mapped>>

NextFactory ==
    \/ CallFromAny
    \/ CallFromText

SpecFactory == InitFactory /\ [][NextFactory]_vars

(***************************************************************************)
(* Properties of the collection under a single caller.                     *)
(***************************************************************************)
SingleAdds == {"Add", "AddParsed", "AddChecked", "AddParsedChecked", "AddProperty"}
BulkAdds == {"AddMap", "AddTextMap"}
Deletes == {"Delete", "DeleteProperty"}

\* the collection before the last call
Pre == ret.pre

\* the number of properties List returns that are named n
CountNamed(l, n) == Cardinality({i \in 1..Len(l) : Name(l[i]) = n})

\* C1: after any sequence of calls of a single caller, Size() is the number
\* of properties List() returns (the number of distinct names stored).
C1_SizeIsNumberStored == Size(Self) = Len(List(Self))

\* C2: an accepted insertion of a property named n while a property named n
\* is stored replaces it: Named(n) finds the property just added, List()
\* holds exactly one property named n, and the entries under the other
\* names are as they were.
C2_DuplicateNameOverwrites ==
    (ret.op \in SingleAdds /\ ret.ok /\ Name(ret.prop) \in DOMAIN Pre.syncMap)
    => /\ Named(Self, Name(ret.prop)) = [prop |-> ret.prop, ok |-> TRUE]
       /\ CountNamed(List(Self), Name(ret.prop)) = 1
       /\ \A m \in Names \ {Name(ret.prop)} : Named(Self, m) = Named(Pre, m)

C2_Witness ==
    /\ ret.op \in {"Add", "AddProperty"} /\ ret.ok
    /\ Name(ret.prop) \in DOMAIN Pre.syncMap
    /\ Pre.syncMap[Name(ret.prop)] # ret.prop
    /\ DOMAIN Pre.syncMap = Names

\* C6: Delete of a name that is not stored returns (false, nil) and leaves
\* Size() and every stored entry as they were.
C6_DeleteAbsentChangesNothing ==
    (ret.op \in Deletes /\ ~Named(Pre, ret.name).ok)
    => /\ ~ret.ok /\ ret.err = NoError
       /\ Size(Self) = Size(Pre)
       /\ syncMap = Pre.syncMap

C6_Witness ==
    /\ ret.op = "Delete" /\ ~Named(Pre, ret.name).ok
    /\ Pre.syncMap # EmptyMap /\ Size(Pre) > 0

\* C7: Delete / DeleteProperty of a stored name returns (true, nil);
\* afterwards Named does not find the name, Size() is one less than before
\* and the entries under the other names are as they were.
C7_DeleteStoredRemovesOne ==
    (ret.op \in Deletes /\ Named(Pre, ret.name).ok)
    => /\ ret.ok /\ ret.err = NoError
       /\ ~Named(Self, ret.name).ok
       /\ Size(Self) = Size(Pre) - 1
       /\ \A m \in Names \ {ret.name} : Named(Self, m) = Named(Pre, m)

C7_Witness ==
    /\ ret.op \in Deletes /\ Named(Pre, ret.name).ok
    /\ \E m \in Names \ {ret.name} : Named(Pre, m).ok

\* C8 as stated: under an add-policy that always vetoes, every insertion
\* attempt reports accepted=false (bulk count 0) and no error, nothing is
\* stored and Size() stays 0.
C8_VetoRejectsWithoutError ==
    addPolicy = "veto"
    => /\ syncMap = EmptyMap /\ Size(Self) = 0
       /\ ret.op \in SingleAdds \cup BulkAdds
          => ~ret.ok /\ ret.count = 0 /\ ret.err = NoError

\* the errors of a property the factory could not build, and of a nil map
ConstructionErrors == {"UnsupportedType", "HookError", "CreatorError"}

\* C8 as amended: under an add-policy that always vetoes, every insertion
\* attempt reports accepted=false (bulk count 0), nothing is stored and
\* Size() stays 0; the attempt reports no error unless the factory failed
\* to build the property or the map given to a bulk insert is nil.
C8_VetoRejectsEveryInsertion ==
    addPolicy = "veto"
    => /\ syncMap = EmptyMap /\ Size(Self) = 0
       /\ ret.op \in SingleAdds \cup BulkAdds
          => /\ ~ret.ok /\ ret.count = 0
             /\ ret.err # NoError
                => \/ ret.err.kind \in ConstructionErrors
                   \/ ret.op \in BulkAdds /\ ret.err.kind = "ItemsNil"

C8_Witness ==
    /\ addPolicy = "veto" /\ ret.op = "AddProperty"
    /\ ~ret.ok /\ ret.err = NoError /\ ret.prop = ret.given

(***************************************************************************)
(* Properties of the collection under concurrent callers.                  *)
(***************************************************************************)
AllReturned == \A p \in Procs : pc[p] = "done"
Adders == {p \in Procs : job[p].op = "Add"}
Deleters == {p \in Procs : job[p].op = "Delete"}

\* several callers add pairwise distinct names to an empty collection, and
\* nobody does anything else
DistinctAdds ==
    /\ Cardinality(Adders) >= 2
    /\ \A p \in Procs \ Adders : job[p] = Idle
    /\ \A p, q \in Adders : p # q => job[p].name # job[q].name
    /\ Pre.syncMap = EmptyMap /\ Size(Pre) = 0

\* C3: when the callers have added N pairwise distinct names, the
\* collection holds exactly N entries: Named finds each name with the
\* property its caller added, and List() returns N properties.
C3_ConcurrentAddsAllStored ==
    (DistinctAdds /\ AllReturned)
    => /\ \A p \in Adders :
             /\ cret[p].ok /\ cret[p].err = NoError
             /\ Named(Self, job[p].name) = [prop |-> cret[p].prop, ok |-> TRUE]
             /\ AnyValue(cret[p].prop) = IntV("int64", p)
       /\ Len(List(Self)) = Cardinality(Adders)

C3_Witness == DistinctAdds /\ AllReturned /\ Cardinality(Adders) = NumProcs

\* C4: when the callers have added N pairwise distinct names to an
\* initially empty collection, Size() reports N.
C4_ConcurrentAddsAllCounted ==
    (DistinctAdds /\ AllReturned) => Size(Self) = Cardinality(Adders)

\* two callers delete the same stored name, and nobody does anything else
TwoDeletesOfOneName ==
    /\ Cardinality(Deleters) = 2
    /\ \A p \in Procs \ Deleters : job[p] = Idle
    /\ \A p, q \in Deleters : job[p].name = job[q].name
    /\ \A p \in Deleters : Named(Pre, job[p].name).ok

\* C5: when two callers have deleted the same stored name, exactly one of
\* the calls returned removed=true and Size() is one less than before.
C5_ConcurrentDeleteOnce ==
    (TwoDeletesOfOneName /\ AllReturned)
    => /\ Cardinality({p \in Deleters : cret[p].ok}) = 1
       /\ Size(Self) = Size(Pre) - 1

(***************************************************************************)
(* Properties of MutableFromFrontMatter.                                   *)
(***************************************************************************)
\* the lines of a buffer: the runs of bytes between its newlines, the run
\* after the last newline included when it is not empty
RECURSIVE SplitLines(_, _)
SplitLines(b, line) ==
    IF b = <<>> THEN (IF line = <<>> THEN <<>> ELSE <<line>>)
    ELSE IF Head(b) = "\n" THEN <<line>> \o SplitLines(Tail(b), <<>>)
    ELSE SplitLines(Tail(b), Append(line, Head(b)))
LinesOf(b) == SplitLines(b, <<>>)

\* the lines whose trimmed content is ---
DelimiterLines(b) == {i \in 1..Len(LinesOf(b)) : TrimSpace(LinesOf(b)[i]) = Delimiter}

\* the number of bytes of b up to and including line i and its newline
RECURSIVE OffsetAfterLine(_, _)
OffsetAfterLine(b, i) ==
    IF i = 0 THEN 0
    ELSE LET n == OffsetAfterLine(b, i - 1) + Len(LinesOf(b)[i]) + 1
         IN  IF n > Len(b) THEN Len(b) ELSE n

\* C9: on a buffer with no line whose trimmed content is ---, the call
\* returns the whole buffer unchanged as body, a nil collection, count 0 and
\* no error.
C9_NoDelimiterIsAllBody ==
    (fm.called /\ DelimiterLines(content) = {})
    => /\ fm.body = Bytes(content)
       /\ fm.props.nil
       /\ fm.count = 0
       /\ fm.err = NoError

C9_Witness ==
    /\ fm.called /\ DelimiterLines(content) = {}
    /\ Len(LinesOf(content)) = MaxLines
    /\ \E i \in 1..Len(LinesOf(content)) : LinesOf(content)[i] = <<"-", "-">>
    /\ fm.body = Bytes(content) /\ TrimSpace(content) # content

\* C10: on a buffer with an opening --- line and no closing --- line, the
\* call returns a nil body, a nil collection, count 0 and an error that
\* names insideFrontMatter true, the start index just after the opening
\* delimiter line, and end index 0.
C10_UnclosedIsAnError ==
    (fm.called /\ Cardinality(DelimiterLines(content)) = 1)
    => /\ fm.body.nil /\ fm.props.nil /\ fm.count = 0
       /\ fm.err.kind = "FrontMatterParser"
       /\ fm.err.inside
       /\ fm.err.start = OffsetAfterLine(content, CHOOSE i \in DelimiterLines(content) : TRUE)
       /\ fm.err.end = 0

\* C11: every line whose trimmed content is --- is a boundary, wherever it
\* is in the buffer and whether or not a newline ends it: the scanner is
\* inside the front matter exactly when the buffer has such a line, and with
\* two such lines the region is closed and the call does not report the
\* malformed-document error.
C11_EveryDelimiterLineIsABoundary ==
    fm.called
    => /\ fm.scan.insideFrontMatter <=> DelimiterLines(content) # {}
       /\ Cardinality(DelimiterLines(content)) >= 2
          => fm.scan.yamlEndIndex # 0 /\ fm.err.kind # "FrontMatterParser"

\* the scanner found the opening and the closing delimiter line
BothFound == fm.called /\ fm.scan.insideFrontMatter /\ fm.scan.yamlEndIndex # 0

\* the first and the second line whose trimmed content is ---
OpeningLine(b) == CHOOSE i \in DelimiterLines(b) : \A j \in DelimiterLines(b) : i <= j
ClosingLine(b) ==
    CHOOSE i \in DelimiterLines(b) \ {OpeningLine(b)} :
        \A j \in DelimiterLines(b) \ {OpeningLine(b)} : i <= j

\* the bytes between the opening and the closing delimiter line
PayloadBetween(b) ==
    Slice(b, OffsetAfterLine(b, OpeningLine(b)), OffsetAfterLine(b, ClosingLine(b) - 1))

\* C12: when both delimiter lines are found, the bytes handed to the YAML
\* decoder are those after the opening delimiter line and before the closing
\* delimiter line; no delimiter line is among them.
C12_DecoderGetsThePayload ==
    BothFound => fm.block = PayloadBetween(content)

\* both delimiter lines were found and yaml.Unmarshal decoded the block
BlockDecoded ==
    /\ BothFound
    /\ (IF fm.smartParseFM THEN UnmarshalText(fm.doc) ELSE UnmarshalAny(fm.doc)).ok

\* the bytes after the closing delimiter line
AfterClosingLine(b) == Slice(b, OffsetAfterLine(b, ClosingLine(b)), Len(b))

\* C13: when both delimiter lines are found and the block decodes, the body
\* returned is the bytes after the closing delimiter line without their
\* leading and trailing whitespace, and the count returned is the number of
\* properties stored in the collection returned.
C13_BodyAndCount ==
    BlockDecoded
    => /\ fm.body = Bytes(TrimSpace(AfterClosingLine(content)))
       /\ ~fm.props.nil
       /\ fm.count = Len(List(fm.props.c))

\* C14: when both delimiter lines are found and the insertion of a decoded
\* entry fails, the call returns that error, and with it the count of the
\* entries accepted before the failure.
C14_InsertErrorIsReturned ==
    (BlockDecoded /\ fm.bulkErr # NoError)
    => /\ fm.err = fm.bulkErr
       /\ fm.count = Size(fm.props.c)

\* the decoded entries the collection returned stores under their own names
StoredEntries ==
    IF BlockDecoded /\ fm.props.c.addPolicy = "nil"
    THEN DOMAIN fm.props.c.syncMap \cap DOMAIN fm.doc.m
    ELSE {}

\* the property the factory builds for the entry n in the mode of the call
BuiltFor(n) ==
    IF fm.smartParseFM
    THEN FromText(fm.props.c.pf, n, fm.doc.m[n].text, <<>>).prop
    ELSE FromAny(fm.props.c.pf, n, NodeValue(fm.doc.m[n]), <<>>).prop

SingleInsert(op, c, n, m, allow) ==
    IF op = "AddMap" THEN AddChecked(c, n, m[n], allow, <<>>)
    ELSE AddParsedChecked(c, n, m[n], allow, <<>>)

\* the outcomes of inserting every entry of m one call at a time, in the
\* order `order`, each call on the collection the one before it left
RECURSIVE OneByOne(_, _, _, _, _)
OneByOne(op, c, m, allow, order) ==
    IF order = <<>> THEN <<>>
    ELSE LET r == SingleInsert(op, c, Head(order), m, allow)
         IN  <<r>> \o OneByOne(op, r.c, m, allow, Tail(order))

\* the outcomes of the entries of the last bulk insert, and the entries
\* whose insertion returns an error
Singly == OneByOne(ret.op, Pre, ret.items.m, ret.allow, ret.order)
Failures == {i \in 1..Len(Singly) : Singly[i].err # NoError}
FirstFailure == CHOOSE i \in Failures : \A j \in Failures : i <= j
Accepted(upto) == {i \in 1..upto : Singly[i].ok}

\* C16: AddMap / AddTextMap return on the first entry whose insertion
\* returns an error, with that error and the count of the entries accepted
\* before it; the entries accepted before it are stored, and the collection
\* is as that entry's insertion left it: no later entry is stored.  Without
\* a failing entry they return no error and the count of accepted entries.
C16_BulkInsertFailsFast ==
    (ret.op \in BulkAdds /\ ~ret.items.nil)
    => IF Failures = {}
       THEN /\ ret.err = NoError
            /\ ret.count = Cardinality(Accepted(Len(Singly)))
       ELSE /\ ret.err = Singly[FirstFailure].err
            /\ ret.count = Cardinality(Accepted(FirstFailure - 1))
            /\ Self = Singly[FirstFailure].c
            /\ \A i \in Accepted(FirstFailure - 1) :
                  Named(Self, Name(Singly[i].prop)).ok
            /\ \A i \in (FirstFailure + 1)..Len(ret.order) :
                  Named(Self, ret.order[i]) = Named(Pre, ret.order[i])

C16_Witness ==
    /\ ret.op = "AddTextMap" /\ ~ret.items.nil /\ Len(ret.order) = 2
    /\ Pre.syncMap = EmptyMap
    /\ Failures # {} /\ FirstFailure = 1
    /\ Singly[2].ok
    /\ ret.count = 0 /\ ret.err.kind = "HookError" /\ syncMap = EmptyMap

FromStringMaps == {"MutableFromStringMap", "ImmutableFromStringMap"}

\* C17: AddMap, AddTextMap, MutableFromStringMap and ImmutableFromStringMap
\* given a nil map return count 0 and an error and store nothing: the
\* collection of AddMap / AddTextMap is as it was, and the factory returns
\* no collection.
C17_NilMapIsAnError ==
    (ret.op \in BulkAdds \cup FromStringMaps /\ ret.items.nil)
    => /\ ret.count = 0
       /\ ret.err # NoError
       /\ Self = Pre
       /\ ret.events = <<>>
       /\ ret.op \in FromStringMaps => ret.absent

C17_Witness ==
    /\ ret.op = "AddMap" /\ ret.items.nil
    /\ Pre.syncMap # EmptyMap
    /\ ret.err # NoError /\ syncMap = Pre.syncMap

(***************************************************************************)
(* Properties of the property factory.                                     *)
(***************************************************************************)
\* the factory has no after-create hook: what FromAny builds is what it
\* returns
NoAfterCreate == pf.AfterCreate = "nil" /\ pf.AfterCreateHookFunc = "nil"

\* C18: FromAny chooses the variant from the type of the value alone: string
\* gives Text, []string TextList, time.Time DateTime, bool Flag, and an
\* integer of any width, signed or unsigned, gives Cardinal holding the
\* value as an int64; the property has the given name and value.
C18_FromAnyDispatchesOnType ==
    (made.fn = "FromAny" /\ NoAfterCreate
        /\ made.value.t \in {"string", "[]string", "time.Time", "bool"} \cup IntTypes)
    => /\ made.ok /\ made.err = NoError
       /\ Name(made.prop) = made.name
       /\ made.prop.kind =
             CASE made.value.t = "string" -> "Text"
               [] made.value.t = "[]string" -> "TextList"
               [] made.value.t = "time.Time" -> "DateTime"
               [] made.value.t = "bool" -> "Flag"
               [] OTHER -> "Cardinal"
       /\ AnyValue(made.prop) =
             IF made.value.t \in IntTypes THEN IntV("int64", made.value.n)
             ELSE made.value

\* what the precedence flag, date-time, integer, text makes of a text
Classified(name, text) ==
    IF ParseBoolOk(text) THEN DefaultFlagProperty(name, BoolV(ParseBool(text)))
    ELSE IF DateParseAnyOk(text)
         THEN DefaultDateTimeProperty(name, TimeV(DateParseAny(text)))
    ELSE IF ParseIntOk(text)
         THEN DefaultCardinalProperty(name, IntV("int64", ParseInt(text)))
    ELSE DefaultTextProperty(name, StrV(text))

\* C19: FromText classifies a text with the precedence flag, date-time,
\* integer, text: "true" and "false" give Flag, "221" gives Cardinal 221,
\* and with the default factory FromText never fails.
C19_FromTextPrecedence ==
    (made.fn = "FromText" /\ pf = ThePropertyFactory)
    => /\ made.ok /\ made.err = NoError
       /\ made.prop = Classified(made.name, made.text)
       /\ made.text = <<"t", "r", "u", "e">>
          => made.prop = DefaultFlagProperty(made.name, BoolV(TRUE))
       /\ made.text = <<"f", "a", "l", "s", "e">>
          => made.prop = DefaultFlagProperty(made.name, BoolV(FALSE))
       /\ made.text = <<"2", "2", "1">>
          => made.prop = DefaultCardinalProperty(made.name, IntV("int64", 221))

C19_Witness ==
    /\ made.fn = "FromText" /\ pf = ThePropertyFactory
    /\ made.text = <<"1">> /\ ParseIntOk(made.text)
    /\ made.prop = DefaultFlagProperty(made.name, BoolV(TRUE))

\* the custom creators FromAny has for a call, in the order of the claim:
\* those among the options, then those of the factory
RECURSIVE OptionCreators(_)
OptionCreators(options) ==
    IF options = <<>> THEN <<>>
    ELSE (IF IsCreatorOption(Head(options)) THEN <<Head(options).b>> ELSE <<>>)
         \o OptionCreators(Tail(options))
Creators ==
    OptionCreators(made.options)
    \o (IF pf.CustomCreator # "nil" THEN <<pf.CustomCreator>> ELSE <<>>)
    \o (IF pf.CustomCreatorFunc # "nil" THEN <<pf.CustomCreatorFunc>> ELSE <<>>)

UnknownType == made.fn = "FromAny" /\ made.value.t \in {"struct", "nil"}

\* C20: for a value of a type FromAny does not know, the custom creators of
\* the options are consulted first and those of the factory next; when the
\* first of them accepts, the property is the one it made, and when every
\* one of them declines (or there is none) the call returns no property,
\* accepted=false and an UnsupportedType error naming the property and the
\* type of the value.
C20_UnknownTypeConsultsCreators ==
    UnknownType
    => /\ (Creators # <<>> /\ Creators[1] = "accept")
          => /\ made.ok /\ made.err = NoError
             /\ made.prop = RunCustomCreator("accept", made.name, made.value).prop
       /\ (\A i \in 1..Len(Creators) : Creators[i] = "decline")
          => /\ made.prop = NilProp /\ ~made.ok
             /\ made.err = Err("UnsupportedType", made.name, made.value.t, FALSE, 0, 0)

\* the after-create hook of the factory: AfterCreate before AfterCreateHookFunc
ConfiguredHook ==
    IF pf.AfterCreate # "nil" THEN pf.AfterCreate ELSE pf.AfterCreateHookFunc

\* the property the call constructed before any hook saw it (NilProp: none)
Constructed ==
    IF made.fn = "FromText" THEN Classified(made.name, made.text)
    ELSE IF made.fn # "FromAny" THEN NilProp
    ELSE CASE made.value.t = "string" -> DefaultTextProperty(made.name, made.value)
           [] made.value.t = "[]string" -> DefaultTextListProperty(made.name, made.value)
           [] made.value.t = "time.Time" -> DefaultDateTimeProperty(made.name, made.value)
           [] made.value.t = "bool" -> DefaultFlagProperty(made.name, made.value)
           [] made.value.t \in {"int", "int64"} ->
                DefaultCardinalProperty(made.name, made.value)
           [] OTHER -> IF Creators # <<>> /\ Creators[1] = "accept"
                       THEN RunCustomCreator("accept", made.name, made.value).prop
                       ELSE NilProp

\* C21: every property FromAny or FromText constructs, a built-in variant or
\* the property of a custom creator for an unknown type, is passed through
\* the configured after-create hook before it is returned: the call returns
\* what the hook returns for that property.
C21_EveryConstructionPassesTheHook ==
    (Constructed # NilProp /\ ConfiguredHook # "nil")
    => Res(made.prop, made.ok, made.err) = RunAfterCreate(ConfiguredHook, Constructed)

\* C22: every failing outcome of FromAny and FromText (the error is not nil)
\* has a nil property and accepted=false, and neither of them panics,
\* whatever the value, the hooks and the creators.
C22_FailureIsNilFalseError ==
    made.fn \in {"FromAny", "FromText"}
    => /\ made.err.kind # "panic"
       /\ made.err # NoError => (made.prop = NilProp /\ ~made.ok)

\* C23: an error returned by the allow function given to AddChecked or
\* AddParsedChecked is returned to the caller and the property is not
\* stored; the error is never dropped while the call reports success or a
\* plain rejection.
C23_AllowErrorIsReturned ==
    (ret.op \in {"AddChecked", "AddParsedChecked"} /\ ret.allow = "error")
    => /\ ret.err # NoError
       /\ ~ret.ok
       /\ syncMap = Pre.syncMap /\ syncMapSize = Pre.syncMapSize

\* the notification of a property p that Named finds stored at that time
Notified(p) == [prop |-> p, found |-> [prop |-> p, ok |-> TRUE]]

\* C24: the add-event hook is notified exactly once for each accepted
\* insertion, after the property has been stored (Named finds it at that
\* time) and with the property that was stored; it is never notified for an
\* insertion that the add-policy vetoed or that failed with an error.
C24_EventOncePerAcceptedInsertion ==
    addEvent
    => /\ ret.op \in SingleAdds
          => ret.events = IF ret.ok THEN <<Notified(ret.prop)>> ELSE <<>>
       /\ (ret.op \in SingleAdds /\ ret.ok) => Named(Self, Name(ret.prop)).prop = ret.prop
       /\ ret.op \in BulkAdds \cup FromStringMaps
          => /\ Len(ret.events) = ret.count
             /\ \A i \in 1..Len(ret.events) : ret.events[i] = Notified(ret.events[i].prop)

C24_Witness ==
    /\ addEvent /\ ret.op = "AddMap" /\ ret.count = 2
    /\ Len(ret.events) = 2 /\ ret.events[1].prop # ret.events[2].prop

\* C25: the add-policy is consulted before storage on every insertion path
\* (Add, AddParsed, AddChecked, AddParsedChecked, AddProperty, AddMap,
\* AddTextMap); when it returns a substitute q with add=true, the collection
\* stores q under the name of q, returns q with accepted=true, and the given
\* property is stored nowhere.
C25_SubstituteIsStored ==
    addPolicy = "substitute"
    => /\ \A k \in DOMAIN syncMap : k = Name(Substitute) /\ syncMap[k] = Substitute
       /\ (ret.op \in SingleAdds /\ ret.ok)
          => /\ ret.prop = Substitute
             /\ Named(Self, Name(Substitute)) = [prop |-> Substitute, ok |-> TRUE]
             /\ Size(Self) = Size(Pre) + 1
       /\ (ret.op \in BulkAdds /\ ret.count > 0)
          => /\ Named(Self, Name(Substitute)) = [prop |-> Substitute, ok |-> TRUE]
             /\ Size(Self) = Size(Pre) + ret.count
       /\ (ret.op = "AddProperty") => ret.ok /\ ret.err = NoError

C25_Witness ==
    /\ addPolicy = "substitute" /\ ret.op = "AddProperty"
    /\ Name(ret.given) # Name(Substitute) /\ ret.ok /\ ret.prop = Substitute
    /\ DOMAIN syncMap = {Name(Substitute)}

\* the value a property built from v holds: an int is held as an int64
Held(v) == IF v.t = "int" THEN IntV("int64", v.n) ELSE v

SupportedTypes == {"string", "[]string", "time.Time", "bool", "int", "int64"}

\* Map with DefaultMapAssign was called on an empty map after AddMap put all
\* of a map of supported values into the empty collection
Exporting ==
    /\ mapped.called /\ mapped.assign = "default" /\ mapped.before = EmptyDest
    /\ ret.op = "AddMap" /\ Pre.syncMap = EmptyMap /\ addPolicy = "nil"
    /\ \A k \in DOMAIN ret.items.m : ret.items.m[k].t \in SupportedTypes

\* C26: after AddMap(m) into an empty collection with no policy, for a map m
\* of supported values, Map with DefaultMapAssign on an empty map returns
\* the number of stored properties and leaves the map with one key for each
\* stored property, mapped to the value of the property: the map equals m.
C26_ExportEqualsTheMapAdded ==
    Exporting
    => /\ mapped.count = Len(List(Self))
       /\ DOMAIN mapped.dest = DOMAIN syncMap
       /\ \A k \in DOMAIN mapped.dest : mapped.dest[k] = AnyValue(syncMap[k])
       /\ mapped.dest = ret.items.m

\* C26 as amended: the same, and the map equals m except that an int of m
\* comes back as the int64 of the same number.
C26_ExportHoldsTheValuesStored ==
    Exporting
    => /\ mapped.count = Len(List(Self))
       /\ DOMAIN mapped.dest = DOMAIN syncMap
       /\ \A k \in DOMAIN mapped.dest : mapped.dest[k] = AnyValue(syncMap[k])
       /\ mapped.dest = [k \in DOMAIN ret.items.m |-> Held(ret.items.m[k])]

C26_Witness ==
    /\ Exporting /\ mapped.count = 2
    /\ \E k \in DOMAIN ret.items.m : ret.items.m[k].t = "int"
    /\ \E k \in DOMAIN ret.items.m : ret.items.m[k].t = "string"

\* C27: when the add-policy returns an error, AddProperty returns that error
\* with accepted=false, nothing is stored, Size() is unchanged and the
\* add-event hook is not notified; the enclosing AddMap / AddTextMap stops at
\* that entry and returns the error.
C27_PolicyErrorIsReturned ==
    addPolicy = "error"
    => /\ syncMap = EmptyMap /\ Size(Self) = 0
       /\ ret.op = "AddProperty"
          => /\ ret.err = PlainError("PolicyError") /\ ~ret.ok
             /\ ret.events = <<>>
       /\ (ret.op \in BulkAdds /\ ret.order # <<>>)
          => /\ ret.count = 0 /\ ret.events = <<>>
             /\ ret.err = IF ret.op = "AddMap" /\ ret.items.m[ret.order[1]].t = "struct"
                           THEN Err("UnsupportedType", ret.order[1], "struct", FALSE, 0, 0)
                           ELSE PlainError("PolicyError")

C27_Witness ==
    /\ addPolicy = "error" /\ ret.op = "AddMap" /\ Len(ret.order) = 2
    /\ ret.err = PlainError("PolicyError") /\ ret.count = 0
    /\ ret.items.m[ret.order[2]].t = "struct"

\* the last call handed the factory a value it built a property from, and
\* the after-create hook returned accepted=false for that property
BuiltNotAccepted ==
    /\ pf.AfterCreate = "veto"
    /\ ret.op \in {"Add", "AddParsed", "AddChecked", "AddParsedChecked"}
    /\ ret.prop.kind # "Custom" /\ ret.err.kind # "UnsupportedType"

\* C28: a property that the factory built but did not accept (the
\* after-create hook returned accepted=false with no error) is never stored:
\* Add, AddParsed, AddChecked and AddParsedChecked, with or without an allow
\* function such as DefaultAllowAdd, report accepted=false with no error and
\* leave the collection and Size() unchanged.
C28_UnacceptedIsNeverStored ==
    BuiltNotAccepted
    => /\ ~ret.ok /\ ret.err = NoError
       /\ syncMap = Pre.syncMap /\ Size(Self) = Size(Pre)

BlockNotDecoded ==
    /\ BothFound
    /\ ~(IF fm.smartParseFM THEN UnmarshalText(fm.doc) ELSE UnmarshalAny(fm.doc)).ok

\* C30: when both delimiters are found and the block between them fails to
\* decode, MutableFromFrontMatter returns a nil error with a nil collection,
\* count 0 and a nil body: the bytes after the closing delimiter are not
\* returned.
C30_DecodeFailureIsSwallowed ==
    BlockNotDecoded
    => /\ fm.err = NoError
       /\ fm.props = NilProperties
       /\ fm.count = 0
       /\ fm.body = NilBytes

C30_Witness ==
    /\ BlockNotDecoded /\ fm.smartParseFM /\ fm.doc # InvalidYAML
    /\ TrimSpace(AfterClosingLine(content)) # <<>>
    /\ fm.err = NoError /\ fm.body = NilBytes

\* C31: only the first two delimiter lines are boundaries: the scan stops at
\* the second --- line, so a later --- line is part of the body returned;
\* when both delimiters are found, 0 < start index < end index <= length of
\* the buffer, and the end index is 0 only when the region was never closed.
C31_OnlyTheFirstTwoAreBoundaries ==
    fm.called
    => /\ BothFound
          => /\ 0 < fm.scan.yamlStartIndex
             /\ fm.scan.yamlStartIndex < fm.scan.yamlEndIndex
             /\ fm.scan.yamlEndIndex <= Len(content)
             /\ fm.scan.yamlEndIndex = OffsetAfterLine(content, ClosingLine(content))
       /\ BlockDecoded => fm.body = Bytes(TrimSpace(AfterClosingLine(content)))
       /\ fm.scan.yamlEndIndex = 0 => Cardinality(DelimiterLines(content)) < 2

\* C32: in every reachable state of a collection each stored entry is keyed
\* by the name of the property it holds: when Named(n) finds a property p,
\* p.Name() = n, also when the add-policy substituted a property named
\* otherwise than the one given.
C32_EntriesKeyedByTheirName ==
    /\ \A n \in Names : Named(Self, n).ok => Name(Named(Self, n).prop) = n
    /\ \A n \in DOMAIN syncMap : Name(syncMap[n]) = n

C32_Witness ==
    /\ addPolicy = "substitute" /\ ret.op = "Add" /\ ret.ok
    /\ ret.name # Name(Substitute)
    /\ Named(Self, Name(Substitute)).ok /\ ~Named(Self, ret.name).ok

====
